---------------------------- MODULE Spec2Model ----------------------------
(***************************************************************************)
(* Fitness tracker (main.py, with homework.py as the unvalidated variant). *)
(*                                                                         *)
(* read_package validates a (tag, value list) package and constructs a     *)
(* Running / SportsWalking / Swimming record; the record's getters compute *)
(* distance, mean speed and calories; show_training_info bundles them in   *)
(* an InfoMessage whose get_message renders them with three decimals.      *)
(*                                                                         *)
(* Numbers.  The program computes in Python ints (exact) and floats        *)
(* (IEEE-754 binary64), and renders the results with the format specs      *)
(* .3f and ,.3f.  The model computes the same expressions, operation by    *)
(* operation, on the same values: an int is a sign and a natural, a float  *)
(* a sign, a mantissa and a binary exponent, and every float operation is  *)
(* the exact result rounded to the nearest float, a tie going to the even  *)
(* mantissa.  The one operation that is not correctly rounded is the       *)
(* square in SportsWalking.get_spent_calories, which CPython takes from    *)
(* the C library's pow: its result is one of the two floats around the     *)
(* exact square, and which one is a choice made when the run starts.       *)
(* Rendering rounds the float's exact binary value to three decimals, a    *)
(* tie going to the even digit, and groups the thousands.  Naturals are    *)
(* sequences of 15-bit limbs, because TLC's integers are 32 bits wide.     *)
(* The value lists hold integers or None, as the driver's packages do.     *)
(***************************************************************************)
EXTENDS Integers, Sequences, FiniteSets, TLC

\* ------------------------------------------------------------------------
\* Unbounded naturals: little-endian limb sequences, no leading zero limb.
\* ------------------------------------------------------------------------
LimbBits == 15
Base == 2 ^ LimbBits

\* The element of a singleton set.  Written Only({e(x) : x \in {a}}), it
\* evaluates the argument a once and e on its value.
Only(S) == CHOOSE r \in S : TRUE

Min(a, b) == IF a <= b THEN a ELSE b
Max(a, b) == IF a >= b THEN a ELSE b

RECURSIVE ToBig(_)
ToBig(k) == IF k = 0 THEN <<>> ELSE <<k % Base>> \o ToBig(k \div Base)

\* x without its most significant zero limbs.
RECURSIVE BigTrim(_)
BigTrim(x) ==
    IF x = <<>> THEN <<>>
    ELSE IF x[Len(x)] # 0 THEN x
    ELSE BigTrim(SubSeq(x, 1, Len(x) - 1))

RECURSIVE BigAddC(_, _, _)
BigAddC(x, y, c) ==
    IF x = <<>> /\ y = <<>>
    THEN IF c = 0 THEN <<>> ELSE <<c>>
    ELSE LET a == IF x = <<>> THEN 0 ELSE Head(x)
             b == IF y = <<>> THEN 0 ELSE Head(y)
             s == a + b + c
         IN  <<s % Base>> \o BigAddC(IF x = <<>> THEN <<>> ELSE Tail(x),
                                     IF y = <<>> THEN <<>> ELSE Tail(y),
                                     s \div Base)

BigAdd(x, y) == BigAddC(x, y, 0)

\* x - y for y <= x, with borrow b.
RECURSIVE BigSubB(_, _, _)
BigSubB(x, y, b) ==
    IF x = <<>> THEN <<>>
    ELSE LET s == Head(x) - (IF y = <<>> THEN 0 ELSE Head(y)) - b
         IN  <<IF s < 0 THEN s + Base ELSE s>>
             \o BigSubB(Tail(x), IF y = <<>> THEN <<>> ELSE Tail(y),
                        IF s < 0 THEN 1 ELSE 0)

BigSub(x, y) == BigTrim(BigSubB(x, y, 0))

\* x times one limb k (0 < k < Base), with carry c.
RECURSIVE BigMulLimb(_, _, _)
BigMulLimb(x, k, c) ==
    IF x = <<>>
    THEN IF c = 0 THEN <<>> ELSE <<c>>
    ELSE LET p == Head(x) * k + c
         IN  <<p % Base>> \o BigMulLimb(Tail(x), k, p \div Base)

BigMulSmall(x, k) == IF k = 0 THEN <<>> ELSE BigMulLimb(x, k, 0)

BigShift(x) == IF x = <<>> THEN <<>> ELSE <<0>> \o x

RECURSIVE BigMul(_, _)
BigMul(x, y) ==
    IF x = <<>> \/ y = <<>>
    THEN <<>>
    ELSE BigAdd(BigMulSmall(x, Head(y)), BigShift(BigMul(x, Tail(y))))

\* x <= y, compared from the most significant limb.
RECURSIVE BigLeqFrom(_, _, _)
BigLeqFrom(x, y, i) ==
    IF i = 0 THEN TRUE
    ELSE IF x[i] # y[i] THEN x[i] < y[i]
    ELSE BigLeqFrom(x, y, i - 1)

BigLeq(x, y) ==
    IF Len(x) # Len(y) THEN Len(x) < Len(y) ELSE BigLeqFrom(x, y, Len(x))

\* The number of bits of a limb, and of a natural.
RECURSIVE BitLenLimb(_)
BitLenLimb(v) == IF v = 0 THEN 0 ELSE 1 + BitLenLimb(v \div 2)

BitLen(x) ==
    IF x = <<>> THEN 0 ELSE LimbBits * (Len(x) - 1) + BitLenLimb(x[Len(x)])

\* Bit i of x (bit 0 is the least significant).
Bit(x, i) ==
    IF i \div LimbBits + 1 > Len(x) THEN 0
    ELSE (x[i \div LimbBits + 1] \div (2 ^ (i % LimbBits))) % 2

\* Some bit of x below bit k is set.
LowBits(x, k) ==
    \E j \in 1..Len(x) :
        \/ j <= k \div LimbBits /\ x[j] # 0
        \/ j = k \div LimbBits + 1 /\ x[j] % (2 ^ (k % LimbBits)) # 0

\* x * 2^s and floor(x / 2^s).
ShiftLeft(x, s) ==
    IF x = <<>> THEN <<>>
    ELSE [j \in 1..(s \div LimbBits) |-> 0] \o BigMulLimb(x, 2 ^ (s % LimbBits), 0)

ShiftRight(x, s) ==
    Only({BigTrim([j \in 1..(Len(x) - w) |->
                      (x[j + w] \div (2 ^ t))
                      + (IF j + w + 1 > Len(x) THEN 0
                         ELSE (x[j + w + 1] % (2 ^ t)) * (2 ^ (LimbBits - t)))]) :
          w \in {Min(s \div LimbBits, Len(x))}, t \in {s % LimbBits}})

\* The number of zero bits below the lowest set bit of x # 0.
RECURSIVE TrailingZerosLimb(_)
TrailingZerosLimb(v) == IF v % 2 = 1 THEN 0 ELSE 1 + TrailingZerosLimb(v \div 2)

RECURSIVE TrailingZerosFrom(_, _)
TrailingZerosFrom(x, j) ==
    IF x[j] # 0 THEN LimbBits * (j - 1) + TrailingZerosLimb(x[j])
    ELSE TrailingZerosFrom(x, j + 1)

TrailingZeros(x) == TrailingZerosFrom(x, 1)

\* The greatest q with q * d <= r, for r < d * Base, tried downwards from
\* the estimate q.
RECURSIVE DivDigitFrom(_, _, _)
DivDigitFrom(r, d, q) ==
    IF BigLeq(BigMulSmall(d, q), r) THEN q ELSE DivDigitFrom(r, d, q - 1)

\* The estimate is the quotient of the two leading limbs of r by the
\* leading limb of d, which is at most 2 too large when d's leading limb is
\* at least Base / 2.
DivDigit(r, d) ==
    DivDigitFrom(r, d,
        Min(Base - 1,
            ((IF Len(r) > Len(d) THEN r[Len(d) + 1] ELSE 0) * Base
             + (IF Len(r) >= Len(d) THEN r[Len(d)] ELSE 0)) \div d[Len(d)]))

\* Long division of a's limbs i .. 1 by d, r being the remainder so far:
\* the quotient and the remainder.
RECURSIVE LongDiv(_, _, _, _)
LongDiv(a, d, i, r) ==
    IF i = 0 THEN [q |-> <<>>, r |-> r]
    ELSE Only({Only({Only({[q |-> rest.q \o <<k>>, r |-> rest.r] :
                           rest \in {LongDiv(a, d, i - 1,
                                             BigSub(r1, BigMulSmall(d, k)))}}) :
                     k \in {DivDigit(r1, d)}}) :
               r1 \in {BigTrim(<<a[i]>> \o r)}})

\* floor(a / d) and a mod d # 0, for d # 0.  Both are first scaled so that
\* d's leading limb is at least Base / 2.
BigDivMod(a, d) ==
    Only({Only({[q |-> BigTrim(qr.q), inexact |-> qr.r # <<>>] :
                qr \in {LongDiv(x, y, Len(x), <<>>)}}) :
          x \in {ShiftLeft(a, LimbBits - BitLenLimb(d[Len(d)]))},
          y \in {ShiftLeft(d, LimbBits - BitLenLimb(d[Len(d)]))}})

\* ------------------------------------------------------------------------
\* Python numbers.  An int is [t |-> "int", neg |-> s, m |-> n, e |-> 0]:
\* the natural n, negated when s holds (s is FALSE for 0).  A float is
\* [t |-> "float", neg |-> s, m |-> m, e |-> e], the IEEE-754 binary64
\* value m * 2^e with m odd and below 2^53, negated when s holds, or
\* m = 0 and e = 0 for 0.0 and -0.0.  The values of a package are integers
\* of at most 31 bits, from which no result of the program leaves the range
\* of normal floats: infinities, NaN and subnormal results are left out.
\* ------------------------------------------------------------------------
MantissaBits == 53

PyInt(neg, n) == [t |-> "int", neg |-> neg /\ n # <<>>, m |-> n, e |-> 0]
FromInt(k) == IF k < 0 THEN PyInt(TRUE, ToBig(0 - k)) ELSE PyInt(FALSE, ToBig(k))

FloatZero == [t |-> "float", neg |-> FALSE, m |-> <<>>, e |-> 0]

\* The float f with the sign neg.
Signed(neg, f) == [f EXCEPT !.neg = neg]

\* The float x * 2^e exactly, for x below 2^53.
Canon(x, e) ==
    IF x = <<>> THEN FloatZero
    ELSE Only({[t |-> "float", neg |-> FALSE, m |-> ShiftRight(x, z), e |-> e + z] :
               z \in {TrailingZeros(x)}})

\* The float nearest to x * 2^e (plus, when inexact, a fraction of 2^e that
\* was cut off x), a tie going to the even mantissa.
RoundBits(x, e, inexact, s) ==
    IF s <= 0 THEN Canon(x, e)
    ELSE Canon(IF Bit(x, s - 1) = 1
                  /\ (inexact \/ LowBits(x, s - 1) \/ Bit(x, s) = 1)
               THEN BigAdd(ShiftRight(x, s), <<1>>)
               ELSE ShiftRight(x, s),
               e + s)

Round(x, e, inexact) ==
    Only({RoundBits(y, e, inexact, BitLen(y) - MantissaBits) : y \in {x}})

\* The float nearest to a / d * 2^e, a and d naturals, d # 0.  The quotient
\* is computed to at least 55 bits, so that the cut-off remainder only
\* decides which way a value strictly between two floats goes.
DivRoundScaled(a, d, e, k) ==
    Only({Round(qr.q, e - k, qr.inexact) :
          qr \in {BigDivMod(ShiftLeft(a, k), d)}})

DivRound(a, d, e) ==
    IF a = <<>> THEN FloatZero
    ELSE Only({DivRoundScaled(x, y, e, Max(0, 55 + BitLen(y) - BitLen(x))) :
               x \in {a}, y \in {d}})

\* A float literal n/d (decimal): the float nearest to it.
Float(n, d) == DivRound(ToBig(n), ToBig(d), 0)

\* float(v)
AsFloat(v) == IF v.t = "float" THEN v ELSE Signed(v.neg, Round(v.m, 0, FALSE))

BothInt(a, b) == a.t = "int" /\ b.t = "int"

FloatMul(a, b) == Signed(a.neg # b.neg, Round(BigMul(a.m, b.m), a.e + b.e, FALSE))

\* x * 2^e (sign xneg) plus y * 2^e (sign yneg): magnitudes of one sign
\* add, of opposite signs subtract, the larger giving the sign; opposite
\* numbers give 0.0.
FloatAddBits(xneg, x, yneg, y, e) ==
    IF xneg = yneg THEN Signed(xneg, Round(BigAdd(x, y), e, FALSE))
    ELSE IF x = y THEN FloatZero
    ELSE IF BigLeq(y, x) THEN Signed(xneg, Round(BigSub(x, y), e, FALSE))
    ELSE Signed(yneg, Round(BigSub(y, x), e, FALSE))

FloatAddAt(a, b, e) ==
    Only({FloatAddBits(a.neg, x, b.neg, y, e) :
          x \in {ShiftLeft(a.m, a.e - e)}, y \in {ShiftLeft(b.m, b.e - e)}})

FloatAdd(a, b) == FloatAddAt(a, b, Min(a.e, b.e))

FloatDiv(a, b) == Signed(a.neg # b.neg, DivRound(a.m, b.m, a.e - b.e))

IntAdd(a, b) ==
    IF a.neg = b.neg THEN PyInt(a.neg, BigAdd(a.m, b.m))
    ELSE IF BigLeq(b.m, a.m) THEN PyInt(a.neg, BigSub(a.m, b.m))
    ELSE PyInt(b.neg, BigSub(b.m, a.m))

\* a * b
Mul(a, b) ==
    Only({IF BothInt(x, y) THEN PyInt(x.neg # y.neg, BigMul(x.m, y.m))
          ELSE Only({FloatMul(p, q) : p \in {AsFloat(x)}, q \in {AsFloat(y)}}) :
          x \in {a}, y \in {b}})

\* a + b
Add(a, b) ==
    Only({IF BothInt(x, y) THEN IntAdd(x, y)
          ELSE Only({FloatAdd(p, q) : p \in {AsFloat(x)}, q \in {AsFloat(y)}}) :
          x \in {a}, y \in {b}})

\* a / b for b # 0 (the callers raise ZeroDivisionError first).
TrueDiv(a, b) ==
    Only({IF BothInt(x, y) THEN Signed(x.neg # y.neg, DivRound(x.m, y.m, 0))
          ELSE Only({FloatDiv(p, q) : p \in {AsFloat(x)}, q \in {AsFloat(y)}}) :
          x \in {a}, y \in {b}})

\* a ** 2.  An int is squared exactly.  For a float CPython returns the C
\* library's pow(a, 2.0), which is accurate to within 0.52 units in the last
\* place but not always correctly rounded: the result is the square itself
\* when that is a float, and otherwise one of the two floats around it,
\* the nearer one (a tie going to the even mantissa) when nearest holds and
\* the other one when it does not.
FloatSquareBits(x, e, s, nearest) ==
    IF s <= 0 \/ ~LowBits(x, s) THEN Canon(x, e)
    ELSE LET above == Bit(x, s - 1) = 1 /\ (LowBits(x, s - 1) \/ Bit(x, s) = 1)
         IN  Canon(IF above = nearest THEN BigAdd(ShiftRight(x, s), <<1>>)
                   ELSE ShiftRight(x, s),
                   e + s)

Square(a, nearest) ==
    IF a.t = "int" THEN PyInt(FALSE, BigMul(a.m, a.m))
    ELSE Only({FloatSquareBits(x, 2 * a.e, BitLen(x) - MantissaBits, nearest) :
               x \in {BigMul(a.m, a.m)}})

IsZero(a) == a.m = <<>>

\* a == b: the same value, whatever the types; 0.0 == -0.0.
Eq(a, b) ==
    Only({x.m = y.m /\ x.e = y.e /\ (x.neg = y.neg \/ x.m = <<>>) :
          x \in {Signed(a.neg, Canon(a.m, a.e))},
          y \in {Signed(b.neg, Canon(b.m, b.e))}})

\* ------------------------------------------------------------------------
\* Rendering with the format specs .3f and ,.3f.
\* ------------------------------------------------------------------------
\* |value| * 1000 rounded to the nearest natural, a tie going to the even
\* one.
MilliBits(x, s) ==
    IF s <= 0 THEN ShiftLeft(x, 0 - s)
    ELSE IF Bit(x, s - 1) = 1 /\ (LowBits(x, s - 1) \/ Bit(x, s) = 1)
    THEN BigAdd(ShiftRight(x, s), <<1>>)
    ELSE ShiftRight(x, s)

Milli(v) ==
    Only({MilliBits(BigMul(f.m, ToBig(1000)), 0 - f.e) : f \in {AsFloat(v)}})

\* Division of x's limbs i .. 1 by k (0 < k < Base), r being the remainder
\* so far: the quotient and the remainder.
RECURSIVE ShortDiv(_, _, _, _)
ShortDiv(x, k, i, r) ==
    IF i = 0 THEN [q |-> <<>>, r |-> r]
    ELSE Only({[q |-> rest.q \o <<(r * Base + x[i]) \div k>>, r |-> rest.r] :
               rest \in {ShortDiv(x, k, i - 1, (r * Base + x[i]) % k)}})

ShortDivMod(x, k) ==
    Only({[q |-> BigTrim(qr.q), r |-> qr.r] : qr \in {ShortDiv(x, k, Len(x), 0)}})

\* The digits of x in groups of three, the least significant group first.
RECURSIVE Groups(_)
Groups(x) ==
    IF x = <<>> THEN <<>>
    ELSE Only({<<qr.r>> \o Groups(qr.q) : qr \in {ShortDivMod(x, 1000)}})

Pad3(g) ==
    IF g < 10 THEN "00" \o ToString(g)
    ELSE IF g < 100 THEN "0" \o ToString(g)
    ELSE ToString(g)

\* The groups i .. 2 of the integer part, each after the separator.
RECURSIVE IntGroups(_, _, _)
IntGroups(g, i, sep) ==
    IF i < 2 THEN "" ELSE sep \o Pad3(g[i]) \o IntGroups(g, i - 1, sep)

FormatGroups(g, sep) ==
    (IF Len(g) < 2 THEN "0"
     ELSE ToString(g[Len(g)]) \o IntGroups(g, Len(g) - 1, sep))
    \o "." \o Pad3(IF g = <<>> THEN 0 ELSE g[1])

\* The sign is printed for every negative number, -0.0 included.
Sign(v) == IF v.neg THEN "-" ELSE ""

\* f'{v:.3f}' and f'{v:,.3f}'
Format3f(v) == Sign(v) \o FormatGroups(Groups(Milli(v)), "")
FormatComma3f(v) == Sign(v) \o FormatGroups(Groups(Milli(v)), ",")


\* ------------------------------------------------------------------------
\* Constants of main.py.
\* ------------------------------------------------------------------------
SWM == "SWM"
RUN == "RUN"
WLK == "WLK"

LEN_FOR_SWM == 5
LEN_FOR_RUN == 3
LEN_FOR_WLK == 4

\* The two error messages, named as the source names them.
NOT_FOUND == "NOT_FOUND"
BAD_DATA == "BAD_DATA"

M_IN_KM == 1000
MIN_IN_HOUR == 60
CALORIES_MEAN_SPEED_MULTIPLIER == 18
CALORIES_MEAN_SPEED_SHIFT == Float(179, 100)
CALORIES_WEIGHT_FACTOR_1 == Float(35, 1000)
CALORIES_WEIGHT_FACTOR_2 == Float(29, 1000)
M_TO_SEC_CONVERTER == Float(278, 1000)
CM_IN_METER == 100
SPEED_SWIM_SHIFT == Float(11, 10)
CALORIES_SPEED_SWIM_MULTIPLIER == 2

\* self.LEN_STEP, resolved through the class: Swimming overrides it.
Training_LEN_STEP == Float(65, 100)
Swimming_LEN_STEP == Float(138, 100)
LEN_STEP(cls) == IF cls = "Swimming" THEN Swimming_LEN_STEP ELSE Training_LEN_STEP

\* A value of a package: None, or an integer k.
None == <<>>
Num(k) == <<k>>
\* The number a non-None value holds.
Val(v) == FromInt(v[1])

\* ------------------------------------------------------------------------
\* Bounds of the model, and the packages it reads.
\* ------------------------------------------------------------------------
MaxVal == 1
MaxLen == 6

Values == {None} \cup {Num(k) : k \in 0..MaxVal}

\* A list longer than every class takes is rejected for its length alone,
\* whatever numbers it holds: such lists are drawn with and without None.
LongValues == {None, Num(0)}

LongestArity == Max(LEN_FOR_SWM, Max(LEN_FOR_RUN, LEN_FOR_WLK))

RECURSIVE ListsOfLen(_, _)
ListsOfLen(n, V) ==
    IF n = 0 THEN {<<>>}
    ELSE {<<v>> \o l : v \in V, l \in ListsOfLen(n - 1, V)}

Lists ==
    UNION {ListsOfLen(n, IF n <= LongestArity THEN Values ELSE LongValues) :
           n \in 0..MaxLen}

\* The packages of the driver (main.py, __main__).
packages ==
    { <<SWM, <<Num(720), Num(1), Num(80), Num(25), Num(40)>> >>,
      <<RUN, <<Num(15000), Num(1), Num(75)>> >>,
      <<WLK, <<Num(9000), Num(1), Num(75), Num(180)>> >> }

Tags == {SWM, RUN, WLK, "XYZ"}

Packages ==
    packages \cup
    {<<t, l>> : t \in Tags, l \in Lists}

\* ------------------------------------------------------------------------
\* Records (class Training and its subclasses), main.py.
\* ------------------------------------------------------------------------
Training_init(cls, action, duration, weight) ==
    [cls |-> cls,
     action |-> Val(action),
     duration |-> Val(duration),
     weight |-> Val(weight),
     spent_calories |-> FloatZero,
     mean_speed_km_h |-> FloatZero]

Running_init(a) == Training_init("Running", a[1], a[2], a[3])

\* Faulty variant: height kept in centimetres.
SportsWalking_init_cm(a) ==
    [cls |-> "SportsWalking",
     action |-> Val(a[1]),
     duration |-> Val(a[2]),
     weight |-> Val(a[3]),
     spent_calories |-> FloatZero,
     mean_speed_km_h |-> FloatZero,
     height |-> Val(a[4])]

\* height is stored in metres.
SportsWalking_init(a) ==
    [cls |-> "SportsWalking",
     action |-> Val(a[1]),
     duration |-> Val(a[2]),
     weight |-> Val(a[3]),
     spent_calories |-> FloatZero,
     mean_speed_km_h |-> FloatZero,
     height |-> TrueDiv(Val(a[4]), FromInt(CM_IN_METER))]

Swimming_init(a) ==
    [cls |-> "Swimming",
     action |-> Val(a[1]),
     duration |-> Val(a[2]),
     weight |-> Val(a[3]),
     spent_calories |-> FloatZero,
     mean_speed_km_h |-> FloatZero,
     length_pool |-> Val(a[4]),
     count_pool |-> Val(a[5])]

\* What a method call leaves: the record after it, and the value returned
\* or the exception raised (fault # "").
Returns(self, v) == [self |-> self, fault |-> "", val |-> v]
Raises(self, e) == [self |-> self, fault |-> e, val |-> FloatZero]

\* Faulty variant: Swimming's distance taken from the pool, not the strokes.
Training_get_distance_pool(self) ==
    IF self.cls = "Swimming"
    THEN TrueDiv(Mul(self.length_pool, self.count_pool), FromInt(M_IN_KM))
    ELSE TrueDiv(Mul(self.action, LEN_STEP(self.cls)), FromInt(M_IN_KM))

Training_get_distance(self) ==
    TrueDiv(Mul(self.action, LEN_STEP(self.cls)), FromInt(M_IN_KM))

get_distance(self) == Returns(self, Training_get_distance(self))

\* Faulty variant: a zero duration yields speed 0 instead of raising.
Training_get_mean_speed_guarded(self) ==
    Only({Returns([self EXCEPT !.mean_speed_km_h = v], v) :
          v \in {IF IsZero(self.duration) THEN FloatZero
                 ELSE TrueDiv(Training_get_distance(self), self.duration)}})

Training_get_mean_speed(self) ==
    IF IsZero(self.duration)
    THEN Raises(self, "ZeroDivisionError")
    ELSE Only({Returns([self EXCEPT !.mean_speed_km_h = v], v) :
               v \in {TrueDiv(Training_get_distance(self), self.duration)}})

\* Faulty variant: Swimming without its override of get_mean_speed.
Swimming_get_mean_speed_inherited(self) ==
    IF IsZero(self.duration)
    THEN Raises(self, "ZeroDivisionError")
    ELSE Only({Returns([self EXCEPT !.mean_speed_km_h = v], v) :
               v \in {TrueDiv(TrueDiv(Mul(self.action, LEN_STEP(self.cls)),
                                FromInt(M_IN_KM)),
                           self.duration)}})

Swimming_get_mean_speed(self) ==
    IF IsZero(self.duration)
    THEN Raises(self, "ZeroDivisionError")
    ELSE Only({Returns([self EXCEPT !.mean_speed_km_h = v], v) :
               v \in {TrueDiv(TrueDiv(Mul(self.length_pool, self.count_pool),
                                FromInt(M_IN_KM)),
                           self.duration)}})

get_mean_speed(self) ==
    IF self.cls = "Swimming"
    THEN Swimming_get_mean_speed(self)
    ELSE Training_get_mean_speed(self)

\* In each get_spent_calories, r is what self.get_mean_speed() left and c
\* the value of the formula.

\* Faulty variant: the result is stored in self.weight.
Running_get_spent_calories_into_weight(self) ==
    Only({IF r.fault # "" THEN r
          ELSE Only({Returns([r.self EXCEPT !.weight = c], c) :
               c \in {Mul(TrueDiv(Mul(Add(Mul(FromInt(CALORIES_MEAN_SPEED_MULTIPLIER),
                                               r.val),
                                          CALORIES_MEAN_SPEED_SHIFT),
                                     self.weight),
                                FromInt(M_IN_KM)),
                           Mul(self.duration, FromInt(MIN_IN_HOUR)))}}) :
          r \in {get_mean_speed(self)}})

\* Faulty variant: the formula without CALORIES_MEAN_SPEED_SHIFT.
Running_get_spent_calories_no_shift(self) ==
    Only({IF r.fault # "" THEN r
          ELSE Only({Returns([r.self EXCEPT !.spent_calories = c], c) :
               c \in {Mul(TrueDiv(Mul(Mul(FromInt(CALORIES_MEAN_SPEED_MULTIPLIER),
                                          r.val),
                                     self.weight),
                                FromInt(M_IN_KM)),
                           Mul(self.duration, FromInt(MIN_IN_HOUR)))}}) :
          r \in {get_mean_speed(self)}})

\* Faulty variant: the result is added to the cached self.spent_calories.
Running_get_spent_calories_accumulating(self) ==
    Only({IF r.fault # "" THEN r
          ELSE Only({Returns([r.self EXCEPT !.spent_calories = c], c) :
               c \in {Add(self.spent_calories,
                           Mul(TrueDiv(Mul(Add(Mul(FromInt(CALORIES_MEAN_SPEED_MULTIPLIER),
                                                    r.val),
                                               CALORIES_MEAN_SPEED_SHIFT),
                                          self.weight),
                                     FromInt(M_IN_KM)),
                                Mul(self.duration, FromInt(MIN_IN_HOUR))))}}) :
          r \in {get_mean_speed(self)}})

Running_get_spent_calories(self) ==
    Only({IF r.fault # "" THEN r
          ELSE Only({Returns([r.self EXCEPT !.spent_calories = c], c) :
               c \in {Mul(TrueDiv(Mul(Add(Mul(FromInt(CALORIES_MEAN_SPEED_MULTIPLIER),
                                               r.val),
                                          CALORIES_MEAN_SPEED_SHIFT),
                                     self.weight),
                                FromInt(M_IN_KM)),
                           Mul(self.duration, FromInt(MIN_IN_HOUR)))}}) :
          r \in {get_mean_speed(self)}})

SportsWalking_get_spent_calories(self, nearest) ==
    Only({IF r.fault # "" THEN r
          ELSE IF IsZero(self.height) THEN Raises(r.self, "ZeroDivisionError")
          ELSE Only({Only({Returns([r.self EXCEPT !.spent_calories = c], c) :
               c \in {Mul(Mul(Add(Mul(CALORIES_WEIGHT_FACTOR_1, self.weight),
                                     Mul(Mul(TrueDiv(Square(meters_in_sec, nearest),
                                                    self.height),
                                               CALORIES_WEIGHT_FACTOR_2),
                                          self.weight)),
                                self.duration),
                           FromInt(MIN_IN_HOUR))}}) :
               meters_in_sec \in {Mul(r.val, M_TO_SEC_CONVERTER)}}) :
          r \in {get_mean_speed(self)}})

Swimming_get_spent_calories(self) ==
    Only({IF r.fault # "" THEN r
          ELSE Only({Returns([r.self EXCEPT !.spent_calories = c], c) :
               c \in {Mul(Mul(Mul(Add(r.val, SPEED_SWIM_SHIFT),
                                     FromInt(CALORIES_SPEED_SWIM_MULTIPLIER)),
                                self.weight),
                           self.duration)}}) :
          r \in {get_mean_speed(self)}})

get_spent_calories(self, nearest) ==
    CASE self.cls = "Running" -> Running_get_spent_calories(self)
      [] self.cls = "SportsWalking" -> SportsWalking_get_spent_calories(self, nearest)
      [] self.cls = "Swimming" -> Swimming_get_spent_calories(self)

InfoMessage(training_type, duration, distance, speed, calories) ==
    [training_type |-> training_type,
     duration |-> duration,
     distance |-> distance,
     speed |-> speed,
     calories |-> calories]

NoMessage == InfoMessage("", FloatZero, FloatZero, FloatZero, FloatZero)

\* The arguments of InfoMessage are evaluated left to right: s is what
\* self.get_mean_speed() left, c what self.get_spent_calories() left.
show_training_info(self, nearest) ==
    Only({IF s.fault # "" THEN [self |-> s.self, fault |-> s.fault, val |-> NoMessage]
          ELSE Only({IF c.fault # ""
                     THEN [self |-> c.self, fault |-> c.fault, val |-> NoMessage]
                     ELSE Returns(c.self,
                                  InfoMessage(self.cls, self.duration,
                                              Training_get_distance(self),
                                              s.val, c.val)) :
                     c \in {get_spent_calories(s.self, nearest)}}) :
          s \in {get_mean_speed(self)}})

\* The text of the message, by its variable parts: the class name and the
\* four numbers as they are rendered, the duration with .3f and the others
\* with ,.3f.  (The fixed words between them are left out.)
get_message(m) ==
    [training_type |-> m.training_type,
     duration |-> Format3f(m.duration),
     distance |-> FormatComma3f(m.distance),
     speed |-> FormatComma3f(m.speed),
     calories |-> FormatComma3f(m.calories)]

\* ------------------------------------------------------------------------
\* The dispatcher, main.py.
\* ------------------------------------------------------------------------
correct_list_length == [t \in {SWM, RUN, WLK} |->
    CASE t = SWM -> LEN_FOR_SWM [] t = RUN -> LEN_FOR_RUN [] t = WLK -> LEN_FOR_WLK]

\* None in dat_list
NoneIn(dat_list) == \E i \in 1..Len(dat_list) : dat_list[i] = None

\* Faulty variant: the list is checked for its length only.
checking_correct_data_length_only(wrk_typ, dat_list) ==
    IF Len(dat_list) # correct_list_length[wrk_typ] THEN FALSE
    ELSE TRUE

checking_correct_data(wrk_typ, dat_list) ==
    IF NoneIn(dat_list) THEN FALSE
    ELSE IF Len(dat_list) # correct_list_length[wrk_typ] THEN FALSE
    ELSE TRUE

training_classes == [t \in {SWM, RUN, WLK} |->
    CASE t = SWM -> "Swimming" [] t = RUN -> "Running" [] t = WLK -> "SportsWalking"]

\* training_classes[workout_tpe](*data_list), after the checks.
Construct(cls, a) ==
    CASE cls = "Swimming" -> Swimming_init(a)
      [] cls = "Running" -> Running_init(a)
      [] cls = "SportsWalking" -> SportsWalking_init(a)


\* ------------------------------------------------------------------------
\* homework.py: the same classes without validation and without the cached
\* fields.  A field holds None or <<number>>, since nothing rejects a None.
\* ------------------------------------------------------------------------
Opt(v) == IF v = None THEN None ELSE <<Val(v)>>

hw_Returns(v) == [fault |-> "", val |-> v]
hw_Raises(e) == [fault |-> e, val |-> FloatZero]

hw_training_classes == [t \in {"SWM", "RUN", "WLK"} |->
    CASE t = "SWM" -> "Swimming" [] t = "RUN" -> "Running" [] t = "WLK" -> "SportsWalking"]

hw_arity == [c \in {"Swimming", "Running", "SportsWalking"} |->
    CASE c = "Swimming" -> 5 [] c = "Running" -> 3 [] c = "SportsWalking" -> 4]

hw_NoTraining == [cls |-> ""]

\* The constructors: a call with the wrong number of arguments, and
\* None / 100 in SportsWalking.__init__, raise TypeError.
hw_init(cls, a) ==
    IF Len(a) # hw_arity[cls]
    THEN [fault |-> "TypeError", self |-> hw_NoTraining]
    ELSE CASE cls = "Running" ->
                [fault |-> "",
                 self |-> [cls |-> cls, action |-> Opt(a[1]),
                           duration |-> Opt(a[2]), weight |-> Opt(a[3])]]
           [] cls = "SportsWalking" ->
                IF a[4] = None
                THEN [fault |-> "TypeError", self |-> hw_NoTraining]
                ELSE [fault |-> "",
                      self |-> [cls |-> cls, action |-> Opt(a[1]),
                                duration |-> Opt(a[2]), weight |-> Opt(a[3]),
                                height |-> TrueDiv(Val(a[4]), FromInt(CM_IN_METER))]]
           [] cls = "Swimming" ->
                [fault |-> "",
                 self |-> [cls |-> cls, action |-> Opt(a[1]),
                           duration |-> Opt(a[2]), weight |-> Opt(a[3]),
                           length_pool |-> Opt(a[4]), count_pool |-> Opt(a[5])]]

hw_read_package(tpe, a) ==
    IF tpe \notin DOMAIN hw_training_classes
    THEN [fault |-> "KeyError", self |-> hw_NoTraining]
    ELSE hw_init(hw_training_classes[tpe], a)

hw_get_distance(self) ==
    IF self.action = None THEN hw_Raises("TypeError")
    ELSE hw_Returns(TrueDiv(Mul(self.action[1], LEN_STEP(self.cls)), FromInt(M_IN_KM)))

hw_Training_get_mean_speed(self) ==
    Only({IF d.fault # "" THEN d
          ELSE IF self.duration = None THEN hw_Raises("TypeError")
          ELSE IF IsZero(self.duration[1]) THEN hw_Raises("ZeroDivisionError")
          ELSE hw_Returns(TrueDiv(d.val, self.duration[1])) :
          d \in {hw_get_distance(self)}})

hw_Swimming_get_mean_speed(self) ==
    IF self.length_pool = None \/ self.count_pool = None \/ self.duration = None
    THEN hw_Raises("TypeError")
    ELSE IF IsZero(self.duration[1]) THEN hw_Raises("ZeroDivisionError")
    ELSE hw_Returns(TrueDiv(TrueDiv(Mul(self.length_pool[1], self.count_pool[1]),
                              FromInt(M_IN_KM)),
                         self.duration[1]))

hw_get_mean_speed(self) ==
    IF self.cls = "Swimming"
    THEN hw_Swimming_get_mean_speed(self)
    ELSE hw_Training_get_mean_speed(self)

hw_Running_get_spent_calories(self) ==
    Only({IF r.fault # "" THEN r
          ELSE IF self.weight = None THEN hw_Raises("TypeError")
          ELSE hw_Returns(Mul(TrueDiv(Mul(Add(Mul(FromInt(CALORIES_MEAN_SPEED_MULTIPLIER), r.val),
                                              CALORIES_MEAN_SPEED_SHIFT),
                                         self.weight[1]),
                                    FromInt(M_IN_KM)),
                               Mul(self.duration[1], FromInt(MIN_IN_HOUR)))) :
          r \in {hw_get_mean_speed(self)}})

hw_SportsWalking_get_spent_calories(self, nearest) ==
    Only({IF r.fault # "" THEN r
          ELSE IF self.weight = None THEN hw_Raises("TypeError")
          ELSE IF IsZero(self.height) THEN hw_Raises("ZeroDivisionError")
          ELSE Only({hw_Returns(
                         Mul(Mul(Add(Mul(CALORIES_WEIGHT_FACTOR_1, self.weight[1]),
                                        Mul(Mul(TrueDiv(Square(meters_in_sec, nearest),
                                                       self.height),
                                                  CALORIES_WEIGHT_FACTOR_2),
                                             self.weight[1])),
                                   self.duration[1]),
                              FromInt(MIN_IN_HOUR))) :
                     meters_in_sec \in {Mul(r.val, M_TO_SEC_CONVERTER)}}) :
          r \in {hw_get_mean_speed(self)}})

hw_Swimming_get_spent_calories(self) ==
    Only({IF r.fault # "" THEN r
          ELSE IF self.weight = None THEN hw_Raises("TypeError")
          ELSE hw_Returns(Mul(Mul(Mul(Add(r.val, SPEED_SWIM_SHIFT), FromInt(CALORIES_SPEED_SWIM_MULTIPLIER)),
                                    self.weight[1]),
                               self.duration[1])) :
          r \in {hw_get_mean_speed(self)}})

hw_get_spent_calories(self, nearest) ==
    CASE self.cls = "Running" -> hw_Running_get_spent_calories(self)
      [] self.cls = "SportsWalking" -> hw_SportsWalking_get_spent_calories(self, nearest)
      [] self.cls = "Swimming" -> hw_Swimming_get_spent_calories(self)

hw_get_message(m) ==
    [training_type |-> m.training_type,
     duration |-> Format3f(m.duration),
     distance |-> FormatComma3f(m.distance),
     speed |-> FormatComma3f(m.speed),
     calories |-> FormatComma3f(m.calories)]

hw_NoText == [training_type |-> "", duration |-> "", distance |-> "",
              speed |-> "", calories |-> ""]

\* show_training_info, then main's get_message: the text printed, or the
\* exception.
hw_show_and_print(self, nearest) ==
    Only({IF d.fault # "" THEN [fault |-> d.fault, text |-> hw_NoText]
          ELSE IF s.fault # "" THEN [fault |-> s.fault, text |-> hw_NoText]
          ELSE IF c.fault # "" THEN [fault |-> c.fault, text |-> hw_NoText]
          ELSE [fault |-> "",
                text |-> hw_get_message([training_type |-> self.cls,
                                         duration |-> self.duration[1],
                                         distance |-> d.val,
                                         speed |-> s.val,
                                         calories |-> c.val])] :
          d \in {hw_get_distance(self)},
          s \in {hw_get_mean_speed(self)},
          c \in {hw_get_spent_calories(self, nearest)}})

\* One turn of homework.py's driver loop: read_package, then main.
hw_run(tpe, a, nearest) ==
    Only({IF t.fault # "" THEN [fault |-> t.fault, text |-> hw_NoText]
          ELSE hw_show_and_print(t.self, nearest) :
          t \in {hw_read_package(tpe, a)}})

\* ------------------------------------------------------------------------
\* State.
\* ------------------------------------------------------------------------
VARIABLES
    pow_nearest,    \* the C library's pow rounds this run's square correctly
    workout_tpe,    \* read_package's first argument
    data_list,      \* read_package's second argument
    pc,             \* where read_package stands, then "returned" or "raised"
    raised,         \* the message of the exception read_package raised, or ""
    data_checked,   \* checking_correct_data has been called
    ctor_calls,     \* constructors of Training subclasses invoked so far
    training,       \* the record read_package returned (NoTraining before)
    last_call,      \* the method last called on the record (main stands
                    \* for its show_training_info), "" if none
    called_before,  \* a method had been called before that one
    fault,          \* the exception that call raised, "" if it returned
    ret,            \* the number that call returned, if it was a getter
    info,           \* the InfoMessage it built, if it was show_training_info
                    \* or main
    printed,        \* what main last printed: a message, or Line(obj)
    hw_ran,         \* homework.py has been run on the same package
    hw_out          \* what it printed, or the exception that ended it

vars == <<pow_nearest, workout_tpe, data_list, pc, raised, data_checked, ctor_calls,
          training, last_call, called_before, fault, ret, info, printed, hw_ran,
          hw_out>>

NoTraining == [cls |-> ""]
\* Nothing printed yet.
NoText == [training_type |-> "", duration |-> "", distance |-> "",
           speed |-> "", calories |-> ""]
\* print(obj) of an object that is a string.
Line(obj) == [str |-> obj]

Init ==
    /\ \E p \in Packages : workout_tpe = p[1] /\ data_list = p[2]
    /\ pow_nearest \in IF workout_tpe = WLK /\ checking_correct_data(WLK, data_list)
                  THEN BOOLEAN ELSE {TRUE}
    /\ pc = "tag_check"
    /\ raised = ""
    /\ data_checked = FALSE
    /\ ctor_calls = 0
    /\ training = NoTraining
    /\ last_call = ""
    /\ called_before = FALSE
    /\ fault = ""
    /\ ret = FloatZero
    /\ info = NoMessage
    /\ printed = NoText
    /\ hw_ran = FALSE
    /\ hw_out = [fault |-> "", text |-> hw_NoText]

\* Faulty variant: the value list is checked before the tag is looked up.
read_package_data_check_first ==
    /\ pc = "tag_check"
    /\ pc' = "data_check"
    /\ UNCHANGED <<pow_nearest, workout_tpe, data_list, raised, data_checked, ctor_calls,
                   training, last_call, called_before, fault, ret, info,
                   printed, hw_ran, hw_out>>

\* read_package, line 220: the tag is looked up first.
read_package_tag_check ==
    /\ pc = "tag_check"
    /\ IF workout_tpe \notin DOMAIN training_classes
       THEN pc' = "raised" /\ raised' = NOT_FOUND
       ELSE pc' = "data_check" /\ raised' = raised
    /\ UNCHANGED <<pow_nearest, workout_tpe, data_list, data_checked, ctor_calls, training,
                   last_call, called_before, fault, ret, info, printed, hw_ran,
                   hw_out>>

\* Faulty variant: the record is constructed before the list is checked.
read_package_construct_first ==
    /\ pc = "data_check"
    /\ data_checked' = TRUE
    /\ ctor_calls' = ctor_calls + 1
    /\ IF ~checking_correct_data(workout_tpe, data_list)
       THEN pc' = "raised" /\ raised' = BAD_DATA /\ training' = training
       ELSE /\ pc' = "returned" /\ raised' = raised
            /\ training' = Construct(training_classes[workout_tpe], data_list)
    /\ UNCHANGED <<pow_nearest, workout_tpe, data_list, last_call, called_before, fault,
                   ret, info, printed, hw_ran, hw_out>>

\* read_package, line 223: then the value list is checked.
read_package_data_check ==
    /\ pc = "data_check"
    /\ data_checked' = TRUE
    /\ IF ~checking_correct_data(workout_tpe, data_list)
       THEN pc' = "raised" /\ raised' = BAD_DATA
       ELSE pc' = "construct" /\ raised' = raised
    /\ UNCHANGED <<pow_nearest, workout_tpe, data_list, ctor_calls, training,
                   last_call, called_before, fault, ret, info, printed, hw_ran,
                   hw_out>>

\* read_package, lines 226-228: the record is constructed and returned.
read_package_construct ==
    /\ pc = "construct"
    /\ ctor_calls' = ctor_calls + 1
    /\ training' = Construct(training_classes[workout_tpe], data_list)
    /\ pc' = "returned"
    /\ UNCHANGED <<pow_nearest, workout_tpe, data_list, raised, data_checked,
                   last_call, called_before, fault, ret, info, printed, hw_ran,
                   hw_out>>

\* A caller holding the record calls one of its methods.
call_get_distance ==
    /\ pc = "returned" /\ ~hw_ran
    /\ LET r == get_distance(training)
       IN  /\ training' = r.self
           /\ fault' = r.fault
           /\ ret' = r.val
    /\ info' = NoMessage
    /\ last_call' = "get_distance"
    /\ called_before' = (last_call # "")
    /\ UNCHANGED <<pow_nearest, workout_tpe, data_list, pc, raised, data_checked,
                   ctor_calls, printed, hw_ran, hw_out>>

call_get_mean_speed ==
    /\ pc = "returned" /\ ~hw_ran
    /\ LET r == get_mean_speed(training)
       IN  /\ training' = r.self
           /\ fault' = r.fault
           /\ ret' = r.val
    /\ info' = NoMessage
    /\ last_call' = "get_mean_speed"
    /\ called_before' = (last_call # "")
    /\ UNCHANGED <<pow_nearest, workout_tpe, data_list, pc, raised, data_checked,
                   ctor_calls, printed, hw_ran, hw_out>>

call_get_spent_calories ==
    /\ pc = "returned" /\ ~hw_ran
    /\ LET r == get_spent_calories(training, pow_nearest)
       IN  /\ training' = r.self
           /\ fault' = r.fault
           /\ ret' = r.val
    /\ info' = NoMessage
    /\ last_call' = "get_spent_calories"
    /\ called_before' = (last_call # "")
    /\ UNCHANGED <<pow_nearest, workout_tpe, data_list, pc, raised, data_checked,
                   ctor_calls, printed, hw_ran, hw_out>>

call_show_training_info ==
    /\ pc = "returned" /\ ~hw_ran
    /\ LET r == show_training_info(training, pow_nearest)
       IN  /\ training' = r.self
           /\ fault' = r.fault
           /\ info' = r.val
    /\ ret' = FloatZero
    /\ last_call' = "show_training_info"
    /\ called_before' = (last_call # "")
    /\ UNCHANGED <<pow_nearest, workout_tpe, data_list, pc, raised, data_checked,
                   ctor_calls, printed, hw_ran, hw_out>>

\* main(training_obj).  The caller passes what read_package returned, a
\* Training, whose message is printed; or, read_package having raised, the
\* text of the exception, which is not a Training and is printed as it is.
main ==
    /\ pc \in {"returned", "raised"} /\ ~hw_ran
    /\ IF pc = "returned"
       THEN LET r == show_training_info(training, pow_nearest)
            IN  /\ training' = r.self
                /\ fault' = r.fault
                /\ info' = r.val
                /\ printed' = IF r.fault = "" THEN get_message(r.val) ELSE printed
            /\ ret' = FloatZero
            /\ last_call' = "main"
            /\ called_before' = (last_call # "")
       ELSE /\ printed' = Line(raised)
            /\ UNCHANGED <<training, fault, ret, info, last_call, called_before>>
    /\ UNCHANGED <<pow_nearest, workout_tpe, data_list, pc, raised, data_checked,
                   ctor_calls, hw_ran, hw_out>>

\* homework.py's driver is given the package main.py's was given, once
\* main.py's has ended (read_package raised, or main returned or raised),
\* so that what the two print can be compared.
homework ==
    /\ pc = "raised" \/ (pc = "returned" /\ last_call = "main")
    /\ ~hw_ran
    /\ hw_ran' = TRUE
    /\ hw_out' = hw_run(workout_tpe, data_list, pow_nearest)
    /\ UNCHANGED <<pow_nearest, workout_tpe, data_list, pc, raised, data_checked, ctor_calls,
                   training, last_call, called_before, fault, ret, info, printed>>

Next ==
    \/ read_package_tag_check
    \/ read_package_data_check
    \/ read_package_construct
    \/ call_get_distance
    \/ call_get_mean_speed
    \/ call_get_spent_calories
    \/ call_show_training_info
    \/ main
    \/ homework

Spec == Init /\ [][Next]_vars


\* ------------------------------------------------------------------------
\* Properties.
\* ------------------------------------------------------------------------
Recognized == {"SWM", "RUN", "WLK"}

Arity(tag) == CASE tag = "SWM" -> 5 [] tag = "RUN" -> 3 [] tag = "WLK" -> 4

VariantOf(tag) ==
    CASE tag = "SWM" -> "Swimming" [] tag = "RUN" -> "Running"
      [] tag = "WLK" -> "SportsWalking"

HasNone(l) == \E i \in DOMAIN l : l[i] = <<>>

BadList == HasNone(data_list) \/ Len(data_list) # Arity(workout_tpe)

\* The record read_package built from the package, before any method call.
Fresh == Construct(VariantOf(workout_tpe), data_list)

Summarised == pc = "returned" /\ last_call \in {"show_training_info", "main"} /\ fault = ""

\* C1: an unknown tag is rejected with the unknown-activity error whatever
\* the value list is; the value list is never checked and nothing else
\* happens.
C1_UnknownTagRejected ==
    workout_tpe \notin Recognized =>
        /\ pc \in {"tag_check", "raised"}
        /\ pc = "raised" => raised = "NOT_FOUND"
        /\ ~data_checked
        /\ ctor_calls = 0

C1_Witness ==
    /\ workout_tpe \notin Recognized
    /\ pc = "raised" /\ raised = "NOT_FOUND"
    /\ HasNone(data_list) /\ Len(data_list) > 5

\* C2: for a recognized tag, read_package raises the invalid-package error
\* exactly when the list holds a None or its length is not the tag's arity,
\* and otherwise returns a record of the tag's variant.
C2_BadDataIffNoneOrLength ==
    workout_tpe \in Recognized =>
        /\ pc = "raised" => raised = "BAD_DATA" /\ BadList
        /\ data_checked /\ BadList => pc = "raised" /\ raised = "BAD_DATA"
        /\ data_checked /\ ~BadList => pc \in {"construct", "returned"}
        /\ pc \in {"construct", "returned"} => ~BadList
        /\ pc = "returned" => training.cls = VariantOf(workout_tpe)

C2_Witness ==
    /\ workout_tpe = "WLK" /\ Len(data_list) = 4 /\ HasNone(data_list)
    /\ pc = "raised" /\ raised = "BAD_DATA"

\* C3 as claimed: every method call on a record read_package returned
\* completes without a fault.
C3_NoFaultOnReturnedRecord ==
    /\ pc = "raised" => raised \in {"NOT_FOUND", "BAD_DATA"}
    /\ pc = "returned" => fault = ""

DurationZero == data_list[2] = <<0>>
HeightZero == workout_tpe = "WLK" /\ data_list[4] = <<0>>

\* C3 amended: read_package raises only the two errors; on a record it
\* returned, get_distance never faults, and the other methods fault, with
\* ZeroDivisionError, exactly when duration is 0 or (get_spent_calories,
\* show_training_info, main; SportsWalking) height is 0.
C3_FaultOnlyOnZeroDivisor ==
    /\ pc = "raised" => raised \in {"NOT_FOUND", "BAD_DATA"}
    /\ pc = "returned" /\ last_call # "" =>
         /\ fault \in {"", "ZeroDivisionError"}
         /\ fault # "" <=>
              \/ last_call = "get_mean_speed" /\ DurationZero
              \/ /\ last_call \in {"get_spent_calories", "show_training_info", "main"}
                 /\ DurationZero \/ HeightZero

C3_Witness ==
    /\ pc = "returned" /\ workout_tpe = "WLK"
    /\ ~DurationZero /\ HeightZero
    /\ last_call = "get_spent_calories" /\ fault = "ZeroDivisionError"

\* C4 as claimed: whatever methods were called, every field of the record
\* has the value it had after construction.
C4_RecordNeverChanges == pc = "returned" => training = Fresh

InputFields(self) ==
    [f \in DOMAIN self \ {"spent_calories", "mean_speed_km_h"} |-> self[f]]

\* C4 amended: a method call never changes the class or an input field
\* (action, duration, weight, height, length_pool, count_pool) of the
\* record; get_distance changes no field at all; the cached fields
\* mean_speed_km_h and spent_calories are overwritten by the other methods.
C4_InputFieldsKept ==
    [][pc = "returned" =>
         /\ InputFields(training') = InputFields(training)
         /\ last_call' = "get_distance" => training' = training]_vars

C4_Witness ==
    /\ pc = "returned" /\ last_call = "get_spent_calories" /\ fault = ""
    /\ ~IsZero(training.spent_calories)
    /\ ~IsZero(training.mean_speed_km_h)
    /\ InputFields(training) = InputFields(Fresh)

\* The Swimming record built from the package with its action count
\* replaced by k, and with its pool length and lap count replaced.
SwimWithAction(k) ==
    Swimming_init([data_list EXCEPT ![1] = <<k>>])
SwimWithPool(l, c) ==
    Swimming_init([data_list EXCEPT ![4] = <<l>>, ![5] = <<c>>])

Others == 0..(MaxVal + 1)

\* The float 1.38.
StrokeLength == Float(138, 100)

\* C5 as claimed: the distance in a Swimming summary does not depend on
\* action_count.
C5_SwimDistanceIgnoresAction ==
    Summarised /\ workout_tpe = "SWM" =>
        \A k \in Others :
            Eq(get_distance(SwimWithAction(k)).val, info.distance)

\* C5 amended: the distance in a Swimming summary is action_count * 1.38 /
\* 1000; it does not depend on pool length and lap count, and records that
\* differ in action_count have different distances.
C5_SwimDistanceFromStrokes ==
    Summarised /\ workout_tpe = "SWM" =>
        /\ Eq(info.distance,
              TrueDiv(Mul(FromInt(data_list[1][1]), StrokeLength),
                      FromInt(1000)))
        /\ \A l \in Others, c \in Others :
               Eq(get_distance(SwimWithPool(l, c)).val, info.distance)
        /\ \A k \in Others :
               k # data_list[1][1] =>
                   ~Eq(get_distance(SwimWithAction(k)).val, info.distance)

C5_Witness ==
    /\ Summarised /\ workout_tpe = "SWM"
    /\ data_list[1] # <<0>> /\ data_list[4] = <<0>>
    /\ ~IsZero(info.distance)

SwimWithActionWeight(k, w) ==
    Swimming_init([data_list EXCEPT ![1] = <<k>>, ![3] = <<w>>])

\* C6: Swimming's mean speed is pool length * lap count / 1000 / duration,
\* whatever action_count and weight are, and so its calories do not depend
\* on action_count.
C6_SwimSpeedFromPool ==
    pc = "returned" /\ workout_tpe = "SWM" /\ fault = "" =>
        /\ last_call = "get_mean_speed" =>
             /\ Eq(ret, TrueDiv(TrueDiv(Mul(FromInt(data_list[4][1]),
                                             FromInt(data_list[5][1])),
                                         FromInt(1000)),
                                 FromInt(data_list[2][1])))
             /\ \A k \in Others, w \in Others :
                    Eq(get_mean_speed(SwimWithActionWeight(k, w)).val, ret)
        /\ last_call = "get_spent_calories" =>
             \A k \in Others :
                 Eq(get_spent_calories(SwimWithAction(k), pow_nearest).val, ret)

C6_Witness ==
    /\ pc = "returned" /\ workout_tpe = "SWM" /\ fault = ""
    /\ last_call = "get_mean_speed"
    /\ data_list[1] = <<0>> /\ ~IsZero(ret)

DriverRun == workout_tpe = "RUN" /\ data_list = <<<<15000>>, <<1>>, <<75>>>>
DriverWalk == workout_tpe = "WLK" /\ data_list = <<<<9000>>, <<1>>, <<75>>, <<180>>>>

\* C7 as claimed: ("RUN", [15000, 1, 75]) is summarised as 9.750 km,
\* 9.750 km/h and 790.658 kcal.
C7_RunScenarioAsClaimed ==
    Summarised /\ DriverRun =>
        get_message(info) =
            [training_type |-> "Running", duration |-> "1.000",
             distance |-> "9.750", speed |-> "9.750", calories |-> "790.658"]

\* C7 amended: ("RUN", [15000, 1, 75]) is summarised as 9.750 km,
\* 9.750 km/h and (18 * 9.75 + 1.79) * 75 / 1000 * 60 = 797.805 kcal.
C7_RunScenario ==
    Summarised /\ DriverRun =>
        get_message(info) =
            [training_type |-> "Running", duration |-> "1.000",
             distance |-> "9.750", speed |-> "9.750", calories |-> "797.805"]

C7_Witness == Summarised /\ DriverRun /\ get_message(info).speed = "9.750"

\* The float 1.80.
Height180 == Float(180, 100)

\* C8 as claimed: ("WLK", [9000, 1, 75, 180]) is stored with height 1.80 m
\* and summarised as 5.850 km, 5.850 km/h and 155.782 kcal.
C8_WalkScenarioAsClaimed ==
    Summarised /\ DriverWalk =>
        /\ Eq(training.height, Height180)
        /\ get_message(info) =
               [training_type |-> "SportsWalking", duration |-> "1.000",
                distance |-> "5.850", speed |-> "5.850", calories |-> "155.782"]

\* C8 amended: ("WLK", [9000, 1, 75, 180]) is stored with height 1.80 m,
\* the other values as given, and summarised as 5.850 km, 5.850 km/h and
\* (0.035 * 75 + (5.85 * 0.278)^2 / 1.8 * 0.029 * 75) * 1 * 60 = 349.252 kcal.
C8_WalkScenario ==
    Summarised /\ DriverWalk =>
        /\ Eq(training.height, Height180)
        /\ training.action = FromInt(9000)
        /\ training.duration = FromInt(1)
        /\ training.weight = FromInt(75)
        /\ get_message(info) =
               [training_type |-> "SportsWalking", duration |-> "1.000",
                distance |-> "5.850", speed |-> "5.850", calories |-> "349.252"]

C8_Witness == Summarised /\ DriverWalk /\ get_message(info).speed = "5.850"

\* C9: when read_package has raised, no constructor has run and no record
\* exists; a constructor runs once, and only after the tag was found and
\* the value list was checked and found good.
C9_NoRecordOnError ==
    /\ pc = "raised" => ctor_calls = 0 /\ training.cls = ""
    /\ pc \in {"tag_check", "data_check", "construct"} =>
           ctor_calls = 0 /\ training.cls = ""
    /\ ctor_calls > 0 =>
           /\ ctor_calls = 1
           /\ pc = "returned"
           /\ workout_tpe \in Recognized
           /\ data_checked
           /\ ~BadList

C9_Witness ==
    /\ pc = "raised" /\ raised = "BAD_DATA" /\ data_checked
    /\ ctor_calls = 0 /\ training.cls = ""

\* C10: show_training_info returns, after any earlier calls on the record,
\* the summary it returns as the first call on the newly built record, and
\* homework.py prints for the package what main.py prints (or ends in the
\* same exception).
C10_SummaryFromInputAlone ==
    /\ Summarised => info = show_training_info(Fresh, pow_nearest).val
    /\ pc = "returned" /\ last_call = "main" /\ hw_ran =>
         /\ hw_out.fault = fault
         /\ fault = "" => hw_out.text = printed

C10_Witness ==
    /\ pc = "returned" /\ last_call = "main" /\ fault = ""
    /\ called_before /\ hw_ran
    /\ training # Fresh
    /\ printed.calories \notin {"", "0.000"}

=============================================================================
